---- MODULE Spec2Model ----
(***************************************************************************)
(* State-machine model of the drone-detection dashboard:                   *)
(*   main.py              the Streamlit script (start/stop handling, the   *)
(*                        live loop run_detection_loop, process_video and  *)
(*                        the video-upload alert),                         *)
(*   detector.py          DroneDetector.detect / process_results,          *)
(*   telegram_notifier.py TelegramNotifier.send_message/send_drone_alert,  *)
(*   utils.py             DetectionCounter, FPSCalculator.                 *)
(*                                                                         *)
(* A detection is the record [class_name, class_id]; confidence and bbox   *)
(* are carried by the code but read by no counter, gate or state change.   *)
(* time.time() is a clock in whole seconds.                                *)
(***************************************************************************)
EXTENDS Integers, Sequences, FiniteSets, TLC

(* ------------------------------ bounds -------------------------------- *)
\* detections in one list handed to a DetectionCounter
MaxListLen == 2
\* frames the cameras deliver over the process's life
MaxFrames == 3
\* frames of an uploaded video
MaxVideoFrames == 3
\* seconds of wall-clock time explored after the first script run
Horizon == 11
\* calls made on one DetectionCounter
MaxCalls == 3
\* cv2.VideoCapture devices opened over the process's life
MaxHandles == 2
\* time.time() at the first script run (any value above the cooldown)
Epoch == 11
\* update() and reset() calls made on one FPSCalculator
MaxFpsCalls == 4
\* the largest buffer_size tried besides the default
MaxBuffer == 2

(* ------------------------- program constants -------------------------- *)
notification_cooldown == 10

None == 0
NoFrame == "None"
Frame == "frame"

class_names == (0 :> "Pesawat") @@ (1 :> "Burung") @@ (2 :> "Drone") @@ (3 :> "Helikopter")

CatalogNames == {"Pesawat", "Burung", "Drone", "Helikopter"}

ZeroCounts == [c \in CatalogNames |-> 0]

\* The class ids the modelled detector emits: a catalog class that is not the
\* trigger (Burung), the trigger (Drone), and an id outside the catalog.
ClassIds == {1, 2, 4}

\* The class ids of one frame's boxes.  No counter, gate or label reads the order of
\* the boxes, so one list stands for each multiset: the ascending one.
BoxListsUpTo(n) ==
    {b \in UNION {[1..k -> ClassIds] : k \in 0..n} :
        \A i \in 1..Len(b) - 1 : b[i] <= b[i + 1]}

\* The boxes of one frame of a camera or a video: none, one box of each modelled
\* class id, two Drones.
BoxLists == BoxListsUpTo(1) \cup {<<2, 2>>}

\* What one frame can bring: inference raises, the model returns an empty list,
\* box extraction raises, or a Result with boxes.
FrameOutcomes ==
    {[inference |-> "raises", boxes |-> <<>>, broken |-> FALSE],
     [inference |-> "empty", boxes |-> <<>>, broken |-> FALSE]}
    \cup {[inference |-> "ok", boxes |-> b, broken |-> TRUE] : b \in {<<2>>}}
    \cup {[inference |-> "ok", boxes |-> b, broken |-> FALSE] : b \in BoxLists}

\* Seconds one iteration can take: none, exactly the cooldown, one more.
Dts == {0, notification_cooldown, notification_cooldown + 1}

\* The buttons of one script run: at most one is pressed.
Buttons == {[start |-> FALSE, stop |-> FALSE], [start |-> TRUE, stop |-> FALSE],
            [start |-> FALSE, stop |-> TRUE]}

\* The sidebar of one script run: the checkbox, whether both credentials are
\* filled in (asked for only when the box is ticked), whether the import works.
Sidebars ==
    {[enable_telegram |-> FALSE, credentials |-> FALSE, import_ok |-> TRUE],
     [enable_telegram |-> TRUE, credentials |-> FALSE, import_ok |-> TRUE],
     [enable_telegram |-> TRUE, credentials |-> TRUE, import_ok |-> FALSE],
     [enable_telegram |-> TRUE, credentials |-> TRUE, import_ok |-> TRUE]}

MaxTime == Epoch + Horizon

\* FPSCalculator.__init__'s default buffer_size
default_buffer_size == 15

\* The buffer sizes a calculator is built with
BufferSizes == 0..MaxBuffer \cup {default_buffer_size}

\* Seconds between two calls on a calculator, before update() and before reset()
FrameTimes == {0, 1, 2}
ResetTimes == {0, 1}

(* --------------------------- detector.py ------------------------------ *)
\* self.class_names.get(cls_id, f"Class_{cls_id}")
ClassName(cls_id) ==
    IF cls_id \in DOMAIN class_names
    THEN class_names[cls_id]
    ELSE "Class_" \o ToString(cls_id)

\* What detect() hands back: None, or the model's list of Result objects.  A
\* Result carries the class ids of its boxes; broken = extracting them raises.
NoResults == [is_none |-> TRUE, list |-> <<>>]

\* detect(): None when the model is missing or inference raises, else the results.
\* inference: "ok" (one Result), "empty" (an empty list), "raises".
detect(model_loaded, inference, boxes, broken) ==
    IF ~model_loaded THEN NoResults
    ELSE IF inference = "raises" THEN NoResults
    ELSE IF inference = "empty" THEN [is_none |-> FALSE, list |-> <<>>]
    ELSE [is_none |-> FALSE, list |-> <<[boxes |-> boxes, broken |-> broken]>>]

\* Mutant: with no results the raw frame is handed back as the annotated one.
process_results_raw_frame(results) ==
    IF results.is_none \/ Len(results.list) = 0
    THEN [annotated_frame |-> Frame, detections |-> <<>>]
    ELSE LET result == results.list[1] IN
         IF result.broken
         THEN [annotated_frame |-> NoFrame, detections |-> <<>>]
         ELSE [annotated_frame |-> Frame,
               detections |-> [i \in 1..Len(result.boxes) |->
                                 [class_name |-> ClassName(result.boxes[i]),
                                  class_id |-> result.boxes[i]]]]

\* Mutant: when extracting the boxes raises, the detections built so far are
\* returned with the None frame.
process_results_partial(results) ==
    IF results.is_none \/ Len(results.list) = 0
    THEN [annotated_frame |-> NoFrame, detections |-> <<>>]
    ELSE LET result == results.list[1]
             extracted == [i \in 1..Len(result.boxes) |->
                             [class_name |-> ClassName(result.boxes[i]),
                              class_id |-> result.boxes[i]]]
         IN  IF result.broken
             THEN [annotated_frame |-> NoFrame, detections |-> extracted]
             ELSE [annotated_frame |-> Frame, detections |-> extracted]

\* process_results(): (annotated_frame, detections)
process_results(results) ==
    IF results.is_none \/ Len(results.list) = 0
    THEN [annotated_frame |-> NoFrame, detections |-> <<>>]
    ELSE LET result == results.list[1] IN
         IF result.broken
         THEN [annotated_frame |-> NoFrame, detections |-> <<>>]
         ELSE [annotated_frame |-> Frame,
               detections |-> [i \in 1..Len(result.boxes) |->
                                 [class_name |-> ClassName(result.boxes[i]),
                                  class_id |-> result.boxes[i]]]]

(* ----------------------- telegram_notifier.py ------------------------- *)
\* Mutant: the POST is not wrapped in try/except, so its exception reaches the caller.
send_message_uncaught(http) ==
    IF http = "exception" THEN "raises"
    ELSE IF http = "200" THEN "True" ELSE "False"

\* send_message(): True iff the POST answered 200; an exception is caught.
\* http: "200", "error_status", "exception".
send_message(http) ==
    IF http = "exception" THEN "False"
    ELSE IF http = "200" THEN "True" ELSE "False"

\* send_drone_alert(drone_count): formats the message and sends it
send_drone_alert(drone_count, http) == send_message(http)

(* ------------------- counting helpers (main.py) ----------------------- *)
\* sum(1 for d in detections if d['class_name'] == name)
RECURSIVE CountName(_, _)
CountName(detections, name) ==
    IF detections = <<>> THEN 0
    ELSE (IF Head(detections).class_name = name THEN 1 ELSE 0)
         + CountName(Tail(detections), name)

\* any(d['class_name'] == 'Drone' for d in detections)
DroneDetected(detections) ==
    \E i \in 1..Len(detections) : detections[i].class_name = "Drone"

\* Mutant: the count is set, not incremented.
CountOne_sets(stats, detection) ==
    IF detection.class_name \in DOMAIN stats
    THEN [stats EXCEPT ![detection.class_name] = 1]
    ELSE stats

\* Mutant: a name that is not a key is added, as get_detection_summary does.
CountOne_adds_key(stats, detection) ==
    IF detection.class_name \in DOMAIN stats
    THEN [stats EXCEPT ![detection.class_name] = @ + 1]
    ELSE stats @@ (detection.class_name :> 1)

\* if class_name in stats: stats[class_name] += 1
CountOne(stats, detection) ==
    IF detection.class_name \in DOMAIN stats
    THEN [stats EXCEPT ![detection.class_name] = @ + 1]
    ELSE stats

\* for detection in detections: ...
RECURSIVE CountAll(_, _)
CountAll(stats, detections) ==
    IF detections = <<>> THEN stats
    ELSE CountAll(CountOne(stats, Head(detections)), Tail(detections))

(* ------------------------------ state --------------------------------- *)
VARIABLES
    is_cloud,                \* is_running_on_cloud(), fixed for the process
    clock,                   \* time.time()
    event,                   \* the step taken last
    start_detection,         \* the two buttons, as the latest script run saw them
    stop_detection,
    camera_error,            \* the st.error of the latest script run's start block
    sent_before,             \* history: a loop of an earlier script run sent an alert
    scenario,                \* history: the three-frame scenario, while it is followed
    detection_active,        \* st.session_state.detection_active
    cap,                     \* st.session_state.cap (None or a handle)
    opened,                  \* handles opened and not yet release()d
    next_handle,             \* the next VideoCapture object
    pc,                      \* "idle", "loop", "video", "video_done"
    telegram_notifier,       \* run_detection_loop's notifier (FALSE = None)
    total_detection_stats,
    last_drone_notification,
    nread,                   \* successful cap.read() calls of the live loops so far
    ret,
    results,
    annotated_frame,
    detections,
    displayed,               \* the latest step showed / wrote an annotated frame
    alert,                   \* the notifier call of the latest step
    alert_log,               \* the notifier calls of the current loop: [at, success]
    video_cap,               \* process_video's cap
    all_detections,          \* process_video's all_detections
    frame_count,             \* process_video's frame_count
    session_counts,          \* a DetectionCounter's three dictionaries
    total_counts,
    frame_counts,
    dc_call,                 \* the latest call on the DetectionCounter
    dc_calls,                \* how many calls it has had
    buffer_size,             \* an FPSCalculator's three fields
    frame_times,
    last_time,
    fps,                     \* what update() returned: the fraction num / den
    fps_samples,             \* history: the frame times since __init__ or reset()
    fps_call,                \* the latest call on the FPSCalculator
    fps_calls                \* how many update() and reset() calls it has had

vars == <<is_cloud, clock, event, start_detection, stop_detection, camera_error,
          sent_before, scenario,
          detection_active,
          cap, opened, next_handle, pc, telegram_notifier, total_detection_stats,
          last_drone_notification, nread, ret, results, annotated_frame, detections,
          displayed, alert, alert_log, video_cap, all_detections, frame_count,
          session_counts, total_counts, frame_counts, dc_call, dc_calls,
          buffer_size, frame_times, last_time, fps, fps_samples, fps_call, fps_calls>>

video_vars == <<video_cap, all_detections, frame_count>>
counter_vars == <<session_counts, total_counts, frame_counts, dc_call, dc_calls>>
fps_vars == <<buffer_size, frame_times, last_time, fps, fps_samples, fps_call, fps_calls>>

session_vars == <<detection_active, cap, opened, next_handle>>
button_vars == <<start_detection, stop_detection, camera_error, sent_before>>
loop_vars == <<telegram_notifier, total_detection_stats, last_drone_notification,
               alert_log>>
frame_vars == <<ret, results, annotated_frame, detections, displayed>>

\* The scenario followed by the current source (the camera of a live loop or an
\* uploaded video): a notifier is there, every notifier call succeeds, no time
\* passes between the frames, frames 1 and 3 hold no detection, frame 2 holds
\* exactly one Drone, and the read after frame 3 fails.  `fired` records, frame by
\* frame, whether the step sent an alert; the record is dropped as soon as the
\* run leaves the scenario.
ScenarioOff == [on |-> FALSE, fired |-> <<>>]

ScenarioStart(notifier) ==
    IF notifier THEN [on |-> TRUE, fired |-> <<>>] ELSE ScenarioOff

ScenarioFrame(sc, inference, boxes, broken, quiet, alert_fired) ==
    IF /\ sc.on
       /\ Len(sc.fired) < 3
       /\ quiet
       /\ inference = "ok"
       /\ ~broken
       /\ boxes = (IF Len(sc.fired) = 1 THEN <<2>> ELSE <<>>)
    THEN [on |-> TRUE, fired |-> Append(sc.fired, alert_fired)]
    ELSE ScenarioOff

ScenarioEnd(sc) == IF sc.on /\ Len(sc.fired) = 3 THEN sc ELSE ScenarioOff

\* return 0.0
ZeroFps == [num |-> 0, den |-> 1]

NoAlert == [called |-> FALSE, drone_count |-> 0, success |-> FALSE]

Init ==
    /\ is_cloud \in BOOLEAN
    /\ clock = Epoch
    /\ event = "init"
    /\ start_detection = FALSE
    /\ stop_detection = FALSE
    /\ camera_error = "none"
    /\ sent_before = FALSE
    /\ scenario = ScenarioOff
    /\ detection_active = FALSE
    /\ cap = None
    /\ opened = {}
    /\ next_handle = 1
    /\ pc = "idle"
    /\ telegram_notifier = FALSE
    /\ total_detection_stats = ZeroCounts
    /\ last_drone_notification = 0
    /\ nread = 0
    /\ ret = FALSE
    /\ results = NoResults
    /\ annotated_frame = NoFrame
    /\ detections = <<>>
    /\ displayed = FALSE
    /\ alert = NoAlert
    /\ alert_log = <<>>
    /\ video_cap = None
    /\ all_detections = <<>>
    /\ frame_count = 0
    /\ session_counts = ZeroCounts
    /\ total_counts = ZeroCounts
    /\ frame_counts = ZeroCounts
    /\ dc_call = [method |-> "__init__", detections |-> <<>>]
    /\ dc_calls = 0
    /\ buffer_size = 0
    /\ frame_times = <<>>
    /\ last_time = 0
    /\ fps = ZeroFps
    /\ fps_samples = <<>>
    /\ fps_call = "none"
    /\ fps_calls = 0

\* No code path of main.py builds a DetectionCounter or an FPSCalculator: the
\* dashboard and the two helpers never meet, so a behaviour is a run of the
\* dashboard, a sequence of calls on one counter, or a sequence of calls on one
\* calculator.
DashboardRuns == dc_calls = 0 /\ fps_call = "none"
CounterRuns == event = "init" /\ fps_call = "none"
FpsRuns == event = "init" /\ dc_calls = 0

(* --------------------- main(): start / stop handling ------------------ *)
\* Mutant: the handle is stored without asking isOpened().
StartBlock_skips_isOpened(s, start, camera) ==
    IF start /\ ~s.detection_active /\ camera # "raises"
    THEN [detection_active |-> TRUE, cap |-> next_handle,
          opened |-> IF camera = "opened" THEN s.opened \cup {next_handle} ELSE s.opened]
    ELSE s

\* if start_detection and not detection_active: open the camera.
\* camera: "opened", "not_opened" (isOpened() is False), "raises".
StartBlock(s, start, camera) ==
    IF start /\ ~s.detection_active /\ camera = "opened"
    THEN [detection_active |-> TRUE, cap |-> next_handle,
          opened |-> s.opened \cup {next_handle}]
    ELSE s

\* Mutant: the stop block does not ask whether detection is active.
StopBlock_unguarded(s, stop) ==
    IF stop
    THEN [detection_active |-> FALSE, cap |-> None,
          opened |-> IF s.cap # None THEN s.opened \ {s.cap} ELSE s.opened]
    ELSE s

\* if stop_detection and detection_active: release, clear the flag and the handle
StopBlock(s, stop) ==
    IF stop /\ s.detection_active
    THEN [detection_active |-> FALSE, cap |-> None,
          opened |-> IF s.cap # None THEN s.opened \ {s.cap} ELSE s.opened]
    ELSE s

\* if detection_active and cap: run_detection_loop(...)
EntersLoop(s) == s.detection_active /\ s.cap # None

\* TelegramNotifier is built when enabled, both credentials are given and the
\* import works
MakesNotifier(enable_telegram, credentials, import_ok) ==
    enable_telegram /\ credentials /\ import_ok

\* Mutant: the loop starts from the time it is entered at.
FirstLastNotification_now(previous) == clock

\* Mutant: the loop starts from the value the previous loop left.
FirstLastNotification_kept(previous) == previous

\* last_drone_notification = 0 at the head of run_detection_loop
FirstLastNotification(previous) == 0

\* One run of the script in local mode, up to the loop's first read.  The buttons
\* are exclusive; `cut` is the run being ended by the framework at the
\* status_placeholder call that follows the start block's two assignments.
Main(start, stop, enable_telegram, credentials, import_ok, camera, cut) ==
    /\ DashboardRuns
    /\ pc = "idle"
    /\ ~is_cloud
    /\ (start /\ ~detection_active /\ camera = "opened") => next_handle <= MaxHandles
    /\ cut => (start /\ ~detection_active /\ camera = "opened")
    \* the camera is tried only by the start block
    /\ ~(start /\ ~detection_active) => camera = "not_opened"
    /\ LET s0 == [detection_active |-> detection_active, cap |-> cap, opened |-> opened]
           s1 == StartBlock(s0, start, camera)
           s2 == IF cut THEN s1 ELSE StopBlock(s1, stop)
           loops == ~cut /\ EntersLoop(s2)
       IN  \* the sidebar is read only by run_detection_loop
           /\ ~loops => (~enable_telegram /\ import_ok)
           /\ detection_active' = s2.detection_active
           /\ cap' = s2.cap
           /\ opened' = s2.opened
           /\ next_handle' = IF s1.cap # s0.cap THEN next_handle + 1 ELSE next_handle
           /\ pc' = IF loops THEN "loop" ELSE "idle"
           /\ IF loops
              THEN /\ telegram_notifier' = MakesNotifier(enable_telegram, credentials, import_ok)
                   /\ total_detection_stats' = ZeroCounts
                   /\ last_drone_notification'
                        = FirstLastNotification(last_drone_notification)
                   /\ alert_log' = <<>>
              \* nothing of an earlier run's loop is left in a new script run
              ELSE /\ telegram_notifier' = FALSE
                   /\ total_detection_stats' = ZeroCounts
                   /\ last_drone_notification' = 0
                   /\ alert_log' = <<>>
    /\ event' = "main"
    /\ start_detection' = start
    /\ stop_detection' = stop
    /\ camera_error' = IF start /\ ~detection_active /\ camera # "opened"
                       THEN camera ELSE "none"
    /\ sent_before' = (sent_before \/ last_drone_notification # 0)
    /\ scenario' = IF pc' = "loop" THEN ScenarioStart(telegram_notifier') ELSE ScenarioOff
    /\ ret' = FALSE
    /\ results' = NoResults
    /\ annotated_frame' = NoFrame
    /\ detections' = <<>>
    /\ displayed' = FALSE
    /\ alert' = NoAlert
    /\ UNCHANGED <<is_cloud, clock, nread, video_vars, counter_vars, fps_vars>>

(* ------------------------- run_detection_loop ------------------------- *)
\* Mutant: the gate opens at the cooldown, not after it.
GateOpen_at_cooldown(drone_detected, notifier, current_time, last) ==
    drone_detected /\ notifier /\ current_time - last >= notification_cooldown

\* Mutant: the gate does not ask for a Drone in the frame.
GateOpen_any_frame(drone_detected, notifier, current_time, last) ==
    notifier /\ current_time - last > notification_cooldown

\* drone_detected and telegram_notifier and
\* current_time - last_drone_notification > notification_cooldown
GateOpen(drone_detected, notifier, current_time, last) ==
    drone_detected /\ notifier /\ current_time - last > notification_cooldown

\* Mutant: last_drone_notification is set whatever the call returned.
AlertStep_records_failure(dets, notifier, current_time, last, http) ==
    IF GateOpen(DroneDetected(dets), notifier, current_time, last)
    THEN LET drone_count == CountName(dets, "Drone")
             success == send_drone_alert(drone_count, http)
         IN  [alert |-> [called |-> TRUE, drone_count |-> drone_count,
                         success |-> success = "True"],
              raised |-> success = "raises",
              last |-> current_time]
    ELSE [alert |-> NoAlert, raised |-> FALSE, last |-> last]

\* lines 435-442: the notifier call of one iteration and the new
\* last_drone_notification
AlertStep(dets, notifier, current_time, last, http) ==
    IF GateOpen(DroneDetected(dets), notifier, current_time, last)
    THEN LET drone_count == CountName(dets, "Drone")
             success == send_drone_alert(drone_count, http)
         IN  [alert |-> [called |-> TRUE, drone_count |-> drone_count,
                         success |-> success = "True"],
              raised |-> success = "raises",
              last |-> IF success = "True" THEN current_time ELSE last]
    ELSE [alert |-> NoAlert, raised |-> FALSE, last |-> last]

\* One iteration of the while loop whose cap.read() succeeds.
LoopIteration(inference, boxes, broken, http, dt) ==
    /\ DashboardRuns
    /\ pc = "loop"
    /\ detection_active
    /\ nread < MaxFrames
    /\ clock + dt <= MaxTime
    \* the POST's outcome is read only when the notifier is called
    /\ ~GateOpen(DroneDetected(process_results(detect(TRUE, inference, boxes, broken)).detections),
                 telegram_notifier, clock + dt, last_drone_notification) => http = "200"
    /\ LET res == detect(TRUE, inference, boxes, broken)
           out == process_results(res)
           now == clock + dt
           a == AlertStep(out.detections, telegram_notifier, now,
                          last_drone_notification, http)
       IN  /\ ret' = TRUE
           /\ results' = res
           /\ annotated_frame' = out.annotated_frame
           /\ detections' = out.detections
           /\ total_detection_stats' = CountAll(total_detection_stats, out.detections)
           /\ alert' = a.alert
           /\ last_drone_notification' = a.last
           /\ alert_log' = IF a.alert.called
                            THEN Append(alert_log, [at |-> now, success |-> a.alert.success])
                            ELSE alert_log
           /\ displayed' = (~a.raised /\ out.annotated_frame # NoFrame)
           \* except Exception / finally: an exception ends the loop
           /\ detection_active' = ~a.raised
           /\ pc' = IF a.raised THEN "idle" ELSE "loop"
           /\ clock' = now
           /\ scenario' = ScenarioFrame(scenario, inference, boxes, broken,
                                        dt = 0 /\ http = "200",
                                        a.alert.called /\ a.alert.success)
    /\ nread' = nread + 1
    /\ event' = "iteration"
    /\ UNCHANGED <<is_cloud, button_vars, cap, opened, next_handle, telegram_notifier,
                   video_vars, counter_vars, fps_vars>>

\* Mutant: a failed read skips the frame and the loop goes on.
ReadFail_continue ==
    /\ DashboardRuns
    /\ pc = "loop"
    /\ detection_active
    /\ ret' = FALSE
    /\ event' = "read_fail"
    /\ scenario' = ScenarioEnd(scenario)
    /\ alert' = NoAlert
    /\ displayed' = FALSE
    /\ UNCHANGED <<is_cloud, clock, button_vars, session_vars, pc, loop_vars,
                   nread, results, annotated_frame, detections, video_vars, counter_vars, fps_vars>>

\* ret is False: break, then the finally block clears the flag.  The handle is
\* neither released nor dropped.
ReadFail ==
    /\ DashboardRuns
    /\ pc = "loop"
    /\ detection_active
    /\ ret' = FALSE
    /\ detection_active' = FALSE
    /\ pc' = "idle"
    /\ event' = "read_fail"
    /\ scenario' = ScenarioEnd(scenario)
    /\ alert' = NoAlert
    /\ displayed' = FALSE
    /\ UNCHANGED <<is_cloud, clock, button_vars, cap, opened, next_handle, loop_vars,
                   nread, results, annotated_frame, detections, video_vars, counter_vars, fps_vars>>

\* The st.* calls inside one iteration at which the framework can end the script
\* run before the frame is shown: st.error in detect(), st.error in
\* process_results(), st.sidebar.success after an alert, frame_placeholder.image.
CutPoints == {"detect", "process_results", "sidebar", "image"}

\* A widget is used while an iteration is under way: the framework ends the
\* script run at the iteration's next st.* call, `at`, with an exception that
\* `except Exception` does not catch.  What the iteration did before that call
\* stays done, the rest of it is skipped, and the finally block clears the flag.
InterruptedIteration(inference, boxes, broken, http, dt, at) ==
    /\ DashboardRuns
    /\ pc = "loop"
    /\ detection_active
    /\ nread < MaxFrames
    /\ clock + dt <= MaxTime
    /\ LET res == detect(TRUE, inference, boxes, broken)
           out == process_results(res)
           now == clock + dt
           a == AlertStep(out.detections, telegram_notifier, now,
                          last_drone_notification, http)
           \* the call returned and the steps after it ran
           detected == at # "detect"
           processed == at \in {"sidebar", "image"}
       IN  /\ at = "detect" => inference = "raises"
           /\ at = "process_results" => (inference = "ok" /\ broken)
           /\ at = "sidebar" => (a.alert.called /\ a.alert.success)
           /\ at = "image" => out.annotated_frame # NoFrame
           /\ (~processed \/ ~a.alert.called) => http = "200"
           /\ ret' = TRUE
           /\ results' = IF detected THEN res ELSE results
           /\ annotated_frame' = IF processed THEN out.annotated_frame ELSE annotated_frame
           /\ detections' = IF processed THEN out.detections ELSE detections
           /\ total_detection_stats' = IF processed
                                        THEN CountAll(total_detection_stats, out.detections)
                                        ELSE total_detection_stats
           /\ alert' = IF processed THEN a.alert ELSE NoAlert
           /\ last_drone_notification' = IF processed THEN a.last
                                          ELSE last_drone_notification
           /\ alert_log' = IF processed /\ a.alert.called
                            THEN Append(alert_log, [at |-> now, success |-> a.alert.success])
                            ELSE alert_log
           /\ clock' = now
    /\ displayed' = FALSE
    /\ detection_active' = FALSE
    /\ pc' = "idle"
    /\ nread' = nread + 1
    /\ event' = "cut_iteration"
    /\ scenario' = ScenarioOff
    /\ UNCHANGED <<is_cloud, button_vars, cap, opened, next_handle, telegram_notifier,
                   video_vars, counter_vars, fps_vars>>

\* A widget is used while the loop runs, and the script run is ended at the
\* fps_placeholder call that closes an iteration: the iteration is whole, only
\* the finally block runs.
Interrupt ==
    /\ DashboardRuns
    /\ pc = "loop"
    /\ detection_active
    /\ detection_active' = FALSE
    /\ pc' = "idle"
    /\ event' = "interrupt"
    /\ scenario' = ScenarioOff
    /\ alert' = NoAlert
    /\ displayed' = FALSE
    /\ UNCHANGED <<is_cloud, clock, button_vars, cap, opened, next_handle, loop_vars,
                   nread, ret, results, annotated_frame, detections, video_vars,
                   counter_vars, fps_vars>>

(* ------------------- video upload (cloud mode) ------------------------ *)
\* A video is uploaded: main() calls process_video, which opens the file and
\* starts with an empty all_detections.
VideoStart(enable_telegram, credentials, import_ok) ==
    /\ DashboardRuns
    /\ pc = "idle"
    /\ is_cloud
    /\ next_handle <= MaxHandles
    /\ video_cap' = next_handle
    /\ opened' = opened \cup {next_handle}
    /\ next_handle' = next_handle + 1
    /\ all_detections' = <<>>
    /\ frame_count' = 0
    /\ telegram_notifier' = MakesNotifier(enable_telegram, credentials, import_ok)
    /\ pc' = "video"
    /\ event' = "video_start"
    /\ scenario' = ScenarioStart(telegram_notifier')
    /\ ret' = FALSE
    /\ results' = NoResults
    /\ annotated_frame' = NoFrame
    /\ detections' = <<>>
    /\ displayed' = FALSE
    /\ alert' = NoAlert
    /\ UNCHANGED <<is_cloud, clock, button_vars, detection_active, cap,
                   total_detection_stats, last_drone_notification, nread, alert_log,
                   counter_vars, fps_vars>>

\* One iteration of process_video's loop whose read succeeds: detect, write the
\* annotated frame if there is one, extend all_detections.
VideoFrame(inference, boxes, broken) ==
    /\ DashboardRuns
    /\ pc = "video"
    /\ frame_count < MaxVideoFrames
    /\ LET res == detect(TRUE, inference, boxes, broken)
           out == process_results(res)
       IN  /\ ret' = TRUE
           /\ results' = res
           /\ annotated_frame' = out.annotated_frame
           /\ detections' = out.detections
           /\ displayed' = (out.annotated_frame # NoFrame)
           /\ all_detections' = all_detections \o out.detections
    /\ frame_count' = frame_count + 1
    /\ event' = "video_frame"
    /\ scenario' = ScenarioFrame(scenario, inference, boxes, broken, TRUE, FALSE)
    /\ alert' = NoAlert
    /\ UNCHANGED <<is_cloud, clock, button_vars, session_vars, pc, loop_vars, nread,
                   video_cap, counter_vars, fps_vars>>

\* ret is False (end of file or a failed read): break; the finally block
\* releases the capture and process_video returns.
VideoEnd ==
    /\ DashboardRuns
    /\ pc = "video"
    /\ ret' = FALSE
    /\ opened' = opened \ {video_cap}
    /\ video_cap' = None
    /\ pc' = "video_done"
    /\ event' = "video_end"
    /\ scenario' = ScenarioEnd(scenario)
    /\ alert' = NoAlert
    /\ displayed' = FALSE
    /\ UNCHANGED <<is_cloud, clock, button_vars, detection_active, cap, next_handle,
                   loop_vars, nread, results, annotated_frame, detections,
                   all_detections, frame_count, counter_vars, fps_vars>>

\* A widget is used while process_video runs: the script run is ended at its next
\* st.* call, the finally block releases the capture and nothing is returned.
VideoInterrupt ==
    /\ DashboardRuns
    /\ pc = "video"
    /\ opened' = opened \ {video_cap}
    /\ video_cap' = None
    /\ all_detections' = <<>>
    /\ frame_count' = 0
    /\ pc' = "idle"
    /\ event' = "video_interrupt"
    /\ scenario' = ScenarioOff
    /\ alert' = NoAlert
    /\ displayed' = FALSE
    /\ UNCHANGED <<is_cloud, clock, button_vars, detection_active, cap, next_handle,
                   loop_vars, nread, ret, results, annotated_frame, detections,
                   counter_vars, fps_vars>>

\* main() after process_video: one alert for the whole video, carrying the
\* number of Drone detections of all its frames.
VideoAlert(all, notifier, http) ==
    IF Len(all) > 0 /\ CountName(all, "Drone") > 0 /\ notifier
    THEN [called |-> TRUE, drone_count |-> CountName(all, "Drone"),
          success |-> send_drone_alert(CountName(all, "Drone"), http) = "True"]
    ELSE NoAlert

VideoSummary(http) ==
    /\ DashboardRuns
    /\ pc = "video_done"
    /\ ~VideoAlert(all_detections, telegram_notifier, "200").called => http = "200"
    /\ alert' = VideoAlert(all_detections, telegram_notifier, http)
    /\ pc' = "idle"
    /\ event' = "video_summary"
    /\ scenario' = IF http = "200" THEN scenario ELSE ScenarioOff
    /\ UNCHANGED <<is_cloud, clock, button_vars, session_vars, loop_vars, nread,
                   frame_vars, video_vars, counter_vars, fps_vars>>

(* ----------------------- utils.DetectionCounter ----------------------- *)
main_vars == <<is_cloud, clock, event, start_detection, stop_detection, camera_error,
               sent_before, scenario,
               detection_active,
               cap, opened, next_handle, pc, telegram_notifier, total_detection_stats,
               last_drone_notification, nread, ret, results, annotated_frame, detections,
               displayed, alert, alert_log, video_cap, all_detections, frame_count>>

\* reset(): the three dictionaries start again at zero
Reset ==
    /\ CounterRuns
    /\ dc_calls < MaxCalls
    /\ session_counts' = ZeroCounts
    /\ total_counts' = ZeroCounts
    /\ frame_counts' = ZeroCounts
    /\ dc_call' = [method |-> "reset", detections |-> <<>>]
    /\ dc_calls' = dc_calls + 1
    /\ UNCHANGED <<main_vars, fps_vars>>

\* Mutant: the frame counts are not zeroed first.
update_frame_counts_carry(counts, dets) == CountAll(counts, dets)

\* update_frame_counts(): zero every key, then count the detections
update_frame_counts(counts, dets) ==
    CountAll([key \in DOMAIN counts |-> 0], dets)

\* update_session_counts(): count the detections on top of what is there
update_session_counts(counts, dets) == CountAll(counts, dets)

UpdateFrameCounts(dets) ==
    /\ CounterRuns
    /\ dc_calls < MaxCalls
    /\ frame_counts' = update_frame_counts(frame_counts, dets)
    /\ dc_call' = [method |-> "update_frame_counts", detections |-> dets]
    /\ dc_calls' = dc_calls + 1
    /\ UNCHANGED <<session_counts, total_counts, main_vars, fps_vars>>

UpdateSessionCounts(dets) ==
    /\ CounterRuns
    /\ dc_calls < MaxCalls
    /\ session_counts' = update_session_counts(session_counts, dets)
    /\ dc_call' = [method |-> "update_session_counts", detections |-> dets]
    /\ dc_calls' = dc_calls + 1
    /\ UNCHANGED <<total_counts, frame_counts, main_vars, fps_vars>>

\* The detection lists process_results can hand to a counter
DetectionLists ==
    {process_results(detect(TRUE, "ok", b, FALSE)).detections : b \in BoxListsUpTo(MaxListLen)}

(* ------------------------ utils.FPSCalculator ------------------------- *)
\* sum(self.frame_times)
RECURSIVE Sum(_)
Sum(q) == IF q = <<>> THEN 0 ELSE Head(q) + Sum(Tail(q))

\* Mutant: the newest sample is popped, not the oldest (pop() for pop(0)).
Push_pops_newest(q, size, frame_time) ==
    LET appended == Append(q, frame_time)
    IN  IF Len(appended) > size
        THEN SubSeq(appended, 1, Len(appended) - 1)
        ELSE appended

\* frame_times.append(frame_time); if len(frame_times) > buffer_size: pop(0)
Push(q, size, frame_time) ==
    LET appended == Append(q, frame_time)
    IN  IF Len(appended) > size THEN Tail(appended) ELSE appended

\* the value update() returns: 1.0 / (sum / len), or 0.0
Rate(q) ==
    IF Len(q) > 0 /\ Sum(q) > 0 THEN [num |-> Len(q), den |-> Sum(q)] ELSE ZeroFps

\* FPSCalculator(buffer_size)
FPSCalculator(size) ==
    /\ FpsRuns
    /\ fps_call = "none"
    /\ buffer_size' = size
    /\ frame_times' = <<>>
    /\ last_time' = Epoch
    /\ fps_samples' = <<>>
    /\ fps_call' = "__init__"
    /\ UNCHANGED <<fps, fps_calls, main_vars, counter_vars>>

\* update(), called dt seconds after last_time was set
update(dt) ==
    /\ FpsRuns
    /\ fps_call # "none"
    /\ fps_calls < MaxFpsCalls
    /\ LET current_time == last_time + dt
           frame_time == current_time - last_time
       IN  /\ last_time' = current_time
           /\ frame_times' = Push(frame_times, buffer_size, frame_time)
           /\ fps' = Rate(Push(frame_times, buffer_size, frame_time))
           /\ fps_samples' = Append(fps_samples, frame_time)
    /\ fps_call' = "update"
    /\ fps_calls' = fps_calls + 1
    /\ UNCHANGED <<buffer_size, main_vars, counter_vars>>

\* reset(), called dt seconds after last_time was set
reset(dt) ==
    /\ FpsRuns
    /\ fps_call # "none"
    /\ fps_calls < MaxFpsCalls
    /\ frame_times' = <<>>
    /\ last_time' = last_time + dt
    /\ fps_samples' = <<>>
    /\ fps_call' = "reset"
    /\ fps_calls' = fps_calls + 1
    /\ UNCHANGED <<buffer_size, fps, main_vars, counter_vars>>

NextFps ==
    \/ \E size \in BufferSizes : FPSCalculator(size)
    \/ \E dt \in FrameTimes : update(dt)
    \/ \E dt \in ResetTimes : reset(dt)

NextCounter ==
    \/ Reset
    \/ \E dets \in DetectionLists : UpdateFrameCounts(dets)
    \/ \E dets \in DetectionLists : UpdateSessionCounts(dets)

NextDashboard ==
    \/ \E b \in Buttons : \E s \in Sidebars : \E cut \in BOOLEAN :
         \E camera \in {"opened", "not_opened", "raises"} :
           Main(b.start, b.stop, s.enable_telegram, s.credentials, s.import_ok, camera, cut)
    \/ \E f \in FrameOutcomes : \E http \in {"200", "error_status", "exception"} :
         \E dt \in Dts :
           LoopIteration(f.inference, f.boxes, f.broken, http, dt)
    \/ ReadFail
    \/ \E f \in FrameOutcomes : \E http \in {"200", "error_status", "exception"} :
         \E dt \in Dts : \E at \in CutPoints :
           InterruptedIteration(f.inference, f.boxes, f.broken, http, dt, at)
    \/ Interrupt
    \/ \E s \in Sidebars : VideoStart(s.enable_telegram, s.credentials, s.import_ok)
    \/ \E f \in FrameOutcomes : VideoFrame(f.inference, f.boxes, f.broken)
    \/ VideoEnd
    \/ VideoInterrupt
    \/ \E http \in {"200", "error_status", "exception"} : VideoSummary(http)

Next == NextDashboard \/ NextCounter \/ NextFps

Spec == Init /\ [][Next]_vars

(* ============================== claims ================================ *)
\* detections of a list whose class id is `id`
RECURSIVE CountId(_, _)
CountId(dets, id) ==
    IF dets = <<>> THEN 0
    ELSE (IF Head(dets).class_id = id THEN 1 ELSE 0) + CountId(Tail(dets), id)

\* the class id the catalog gives a name
CatalogId(name) == CHOOSE id \in DOMAIN class_names : class_names[id] = name

\* C1: within one loop, once an alert has been sent successfully at time t, an
\* iteration at a time t' with t' - t <= 10 calls the notifier for no frame,
\* so two successful alerts are always more than 10 seconds apart.
C1_CooldownBetweenAlerts ==
    [][event' \in {"iteration", "cut_iteration"} =>
         /\ \A i \in 1..Len(alert_log) :
              (alert_log[i].success /\ clock' - alert_log[i].at <= 10) => ~alert'.called
         /\ \A i, j \in 1..Len(alert_log') :
              (i < j /\ alert_log'[i].success /\ alert_log'[j].success)
                 => alert_log'[j].at - alert_log'[i].at > 10]_vars

\* Three Drone frames in one loop: the first alerts, the second (same second) and
\* the third (exactly 10 seconds later) are suppressed.
C1_Witness ==
    /\ event = "iteration"
    /\ telegram_notifier
    /\ DroneDetected(detections)
    /\ total_detection_stats["Drone"] = 3
    /\ ~alert.called
    /\ Len(alert_log) = 1
    /\ alert_log[1].success
    /\ clock - alert_log[1].at = 10

\* C2: a failed notifier call leaves last_drone_notification as it was, and the
\* next iteration with a Drone calls the notifier again, however soon it comes;
\* last_drone_notification is set only by an iteration whose call succeeded (and
\* starts at 0 when the loop is entered).
C2_RetryOnFailure ==
    [][/\ (event' = "iteration" /\ alert'.called /\ ~alert'.success)
            => last_drone_notification' = last_drone_notification
       /\ (event = "iteration" /\ alert.called /\ ~alert.success
             /\ event' = "iteration" /\ DroneDetected(detections'))
            => alert'.called
       /\ last_drone_notification' # last_drone_notification
            => \/ /\ event' \in {"iteration", "cut_iteration"}
                  /\ alert'.called /\ alert'.success
                  /\ last_drone_notification' = clock'
               \/ event' = "main" /\ last_drone_notification' = 0]_vars

\* A failed call followed, within the cooldown, by another call.
C2_Witness ==
    /\ event = "iteration"
    /\ alert.called
    /\ Len(alert_log) >= 2
    /\ ~alert_log[Len(alert_log) - 1].success
    /\ alert_log[Len(alert_log)].at - alert_log[Len(alert_log) - 1].at <= 10

\* C3 as stated: whenever the notifier is called, alerting is enabled, the frame
\* just processed holds a Drone, more than 10 seconds have passed since
\* last_drone_notification, and the argument is that frame's number of Drones.
C3_Original ==
    [][alert'.called =>
         /\ telegram_notifier'
         /\ DroneDetected(detections')
         /\ clock' - last_drone_notification > notification_cooldown
         /\ alert'.drone_count = CountName(detections', "Drone")]_vars

\* C3 amended: the notifier is called only by an iteration of the live loop or by
\* the summary of an uploaded video.  In the live loop the call needs a notifier,
\* a Drone in the frame and more than 10 seconds since last_drone_notification,
\* and carries that frame's number of Drones.  The frames of an uploaded video
\* call nothing; its summary calls once, with no cooldown, carrying the number of
\* Drones of all the video's frames.
C3_AlertArgument ==
    [][/\ alert'.called => event' \in {"iteration", "cut_iteration", "video_summary"}
       /\ (event' \in {"iteration", "cut_iteration"} /\ alert'.called) =>
            /\ telegram_notifier
            /\ DroneDetected(detections')
            /\ clock' - last_drone_notification > notification_cooldown
            /\ alert'.drone_count = CountName(detections', "Drone")
       /\ (event' = "video_summary" /\ alert'.called) =>
            /\ telegram_notifier
            /\ alert'.drone_count = CountName(all_detections, "Drone")
            /\ alert'.drone_count > 0]_vars

\* A live-loop alert for the second Drone frame: the argument is 1, the loop's
\* cumulative Drone count is 2.
C3_Witness ==
    /\ event = "iteration"
    /\ alert.called
    /\ alert.drone_count = 1
    /\ CountName(detections, "Drone") = 1
    /\ total_detection_stats["Drone"] = 2

\* C4: an iteration of the live loop adds to every catalog class the number of
\* the frame's detections of that class, and a count goes down only when a new
\* script run handles start/stop, never while the loop runs.
C4_SessionCountsGrow ==
    [][/\ event' = "iteration" =>
            \A c \in CatalogNames :
               total_detection_stats'[c]
                 = total_detection_stats[c] + CountName(detections', c)
       /\ (\E c \in CatalogNames : total_detection_stats'[c] < total_detection_stats[c])
            => (pc = "idle" /\ event' = "main")]_vars

\* Three frames counted in one loop: two Drones and a Burung.
C4_Witness ==
    /\ pc = "loop"
    /\ detection_active
    /\ total_detection_stats["Drone"] = 2
    /\ total_detection_stats["Burung"] = 1

\* C5: update_frame_counts(D) leaves in every catalog class the number of D's
\* detections of that class, whatever was counted before; update_session_counts(D)
\* adds that number to what the class already had.
C5_FrameVersusSession ==
    [][/\ dc_call'.method = "update_frame_counts" =>
            \A c \in CatalogNames : frame_counts'[c] = CountName(dc_call'.detections, c)
       /\ (dc_call'.method = "update_session_counts" /\ dc_calls' # dc_calls) =>
            \A c \in CatalogNames :
               session_counts'[c] = session_counts[c] + CountName(dc_call'.detections, c)]_vars

\* A frame of one Drone counted after two earlier calls that counted Burung: the
\* session holds the earlier detections, the frame counts only its own.
C5_Witness ==
    /\ dc_calls = 3
    /\ dc_call.method = "update_frame_counts"
    /\ Len(dc_call.detections) = 1
    /\ frame_counts["Drone"] = 1
    /\ frame_counts["Burung"] = 0
    /\ session_counts["Burung"] = 2

\* C6: a detection whose class id is outside 0..3 is named "Class_<id>", and the
\* loop's stats, the frame counts and the session counts keep the four catalog
\* keys and count only the detections whose id is the class's own.
C6_UnknownClassIgnored ==
    [][/\ \A d \in {detections'[i] : i \in 1..Len(detections')}
                \cup {dc_call'.detections[i] : i \in 1..Len(dc_call'.detections)} :
            d.class_id \notin 0..3 =>
               /\ d.class_name = "Class_" \o ToString(d.class_id)
               /\ d.class_id = 4 => d.class_name = "Class_4"
               /\ d.class_name \notin CatalogNames
       /\ DOMAIN total_detection_stats' = CatalogNames
       /\ DOMAIN frame_counts' = CatalogNames
       /\ DOMAIN session_counts' = CatalogNames
       /\ event' = "iteration" =>
            \A c \in CatalogNames :
               total_detection_stats'[c]
                 = total_detection_stats[c] + CountId(detections', CatalogId(c))
       /\ dc_call'.method = "update_frame_counts" =>
            \A c \in CatalogNames :
               frame_counts'[c] = CountId(dc_call'.detections, CatalogId(c))
       /\ (dc_call'.method = "update_session_counts" /\ dc_calls' # dc_calls) =>
            \A c \in CatalogNames :
               session_counts'[c]
                 = session_counts[c] + CountId(dc_call'.detections, CatalogId(c))]_vars

\* The second frame of a loop holds a box of class 4: it is labelled Class_4 and
\* the stats are those of the first frame, a Drone.
C6_Witness ==
    /\ event = "iteration"
    /\ Len(detections) = 1
    /\ detections[1].class_id = 4
    /\ detections[1].class_name = "Class_4"
    /\ total_detection_stats = [ZeroCounts EXCEPT !["Drone"] = 1]

\* C7: an iteration whose detect() returned None counts nothing, shows no frame
\* and calls no notifier; the same holds of a frame of an uploaded video.
C7_NoResultSkipsFrame ==
    [][/\ (event' = "iteration" /\ results'.is_none) =>
            /\ total_detection_stats' = total_detection_stats
            /\ last_drone_notification' = last_drone_notification
            /\ annotated_frame' = NoFrame
            /\ detections' = <<>>
            /\ ~displayed'
            /\ ~alert'.called
       /\ (event' = "video_frame" /\ results'.is_none) =>
            /\ all_detections' = all_detections
            /\ ~displayed'
            /\ ~alert'.called]_vars

\* Inference raises on the second frame of a loop that has a notifier, has counted
\* a Drone and has sent nothing yet.
C7_Witness ==
    /\ event = "iteration"
    /\ results.is_none
    /\ telegram_notifier
    /\ last_drone_notification = 0
    /\ total_detection_stats["Drone"] = 1
    /\ ~displayed

\* C8: an iteration whose detector or notifier fails leaves the session running
\* with its handle; the flag is cleared only by a failed read, by the user (a
\* widget used during the loop, the stop button) and by no iteration.
C8_FailuresKeepRunning ==
    [][/\ event' = "iteration" =>
            /\ detection_active'
            /\ pc' = "loop"
            /\ cap' = cap
       /\ (detection_active /\ ~detection_active') =>
            \/ event' = "read_fail" /\ ~ret'
            \/ event' \in {"interrupt", "cut_iteration"}
            \/ event' = "main" /\ stop_detection']_vars

\* The notifier was called and failed, and the loop is still running.
C8_Witness ==
    /\ event = "iteration"
    /\ alert.called
    /\ ~alert.success
    /\ detection_active
    /\ pc = "loop"

\* C9: a failed read ends the loop in the same step with nothing detected, counted
\* or sent, in the live loop and in process_video; iterations run only inside a
\* loop, and the flag is set again only by a script run with the start button.
C9_ReadFailureStops ==
    [][/\ event' = "read_fail" =>
            /\ ~ret'
            /\ ~detection_active'
            /\ pc' = "idle"
            /\ <<results', annotated_frame', detections'>>
                 = <<results, annotated_frame, detections>>
            /\ <<total_detection_stats', last_drone_notification', nread'>>
                 = <<total_detection_stats, last_drone_notification, nread>>
            /\ ~alert'.called
       /\ event' = "video_end" =>
            /\ ~ret'
            /\ pc' = "video_done"
            /\ video_cap' = None
            /\ <<results', detections', all_detections', frame_count'>>
                 = <<results, detections, all_detections, frame_count>>
            /\ ~alert'.called
       /\ event' = "iteration" => (pc = "loop" /\ detection_active)
       /\ event' = "video_frame" => pc = "video"
       /\ (~detection_active /\ detection_active') =>
            (event' = "main" /\ start_detection')]_vars

\* A read fails after a frame with a Drone was counted.
C9_Witness ==
    /\ event = "read_fail"
    /\ ~ret
    /\ ~detection_active
    /\ pc = "idle"
    /\ total_detection_stats["Drone"] = 1

\* C10: once a script run has handled the stop button, the camera is released and
\* the session state holds no handle.
C10_StopReleasesSource ==
    (event = "main" /\ stop_detection) => (cap = None /\ opened = {})

\* C11: a script run that handles the stop button ends with detection inactive and
\* outside the loop, and when detection was already inactive it changes nothing
\* of the session state: the flag, the handle, the open devices.
C11_StopIdempotent ==
    [][(event' = "main" /\ stop_detection') =>
         /\ ~detection_active'
         /\ pc' = "idle"
         /\ ~detection_active =>
              <<detection_active', cap', opened', next_handle'>>
                = <<detection_active, cap, opened, next_handle>>]_vars

\* The stop button handled while detection is already inactive: the handle a
\* failed read left behind is still there, so the stop block did not run.
C11_Witness ==
    /\ event = "main"
    /\ stop_detection
    /\ ~detection_active
    /\ cap # None
    /\ pc = "idle"

\* C12: a script run whose start block could not open the camera (isOpened() is
\* False, or VideoCapture raised) leaves detection inactive, stores no handle in
\* the session state, opens no device and does not enter the loop.
C12_FailedStartStaysStopped ==
    [][(event' = "main" /\ camera_error' # "none") =>
         /\ ~detection_active'
         /\ cap' = cap
         /\ opened' = opened
         /\ next_handle' = next_handle
         /\ pc' = "idle"]_vars

\* The first start of the process fails at isOpened().
C12_Witness ==
    /\ event = "main"
    /\ start_detection
    /\ camera_error = "not_opened"
    /\ ~detection_active
    /\ cap = None
    /\ opened = {}
    /\ pc = "idle"

\* C13: a start pressed while detection is inactive is accepted whenever the
\* camera opens; the loop is entered only by a script run, with every count at
\* zero and last_drone_notification at 0, so that the first frame with a Drone
\* calls the notifier (when there is one) whatever an earlier loop has sent.
C13_RestartResetsSession ==
    [][/\ (event' = "main" /\ start_detection' /\ ~detection_active
             /\ camera_error' = "none")
            => (detection_active' /\ cap' # None /\ cap' # cap)
       /\ (pc' = "loop" /\ pc # "loop") =>
            /\ event' = "main"
            /\ total_detection_stats' = ZeroCounts
            /\ last_drone_notification' = 0
            /\ alert_log' = <<>>
       /\ (event = "main" /\ pc = "loop" /\ event' = "iteration"
             /\ telegram_notifier /\ DroneDetected(detections'))
            => (alert'.called /\ alert'.drone_count = CountName(detections', "Drone"))]_vars

\* An earlier loop sent an alert; the first frame of the next loop, in the same
\* second, holds a Drone and an alert is sent for it.
C13_Witness ==
    /\ event = "iteration"
    /\ sent_before
    /\ clock = Epoch
    /\ alert.called
    /\ alert.success
    /\ Len(alert_log) = 1
    /\ total_detection_stats = [ZeroCounts EXCEPT !["Drone"] = 1]
    /\ nread >= 2

\* the last n elements of a sequence
LastN(q, n) == SubSeq(q, Len(q) - n + 1, Len(q))

\* C14: after any update() and reset() calls the queue of frame times is no
\* longer than buffer_size and holds, in arrival order, the most recent
\* min(k, buffer_size) of the k samples taken since __init__ or the last reset();
\* an update() of a full queue drops exactly its oldest sample.
C14_QueueBoundedFifo ==
    [][fps_call' # "none" =>
         /\ Len(frame_times') <= buffer_size'
         /\ frame_times' = LastN(fps_samples',
                                 IF Len(fps_samples') < buffer_size'
                                 THEN Len(fps_samples') ELSE buffer_size')
         /\ (fps_call' = "update" /\ fps_calls' # fps_calls
               /\ buffer_size > 0 /\ Len(frame_times) = buffer_size)
              => /\ Tail(frame_times) = SubSeq(frame_times', 1, buffer_size - 1)
                 /\ frame_times'[buffer_size] = fps_samples'[Len(fps_samples')]
         /\ fps_call' = "reset" => frame_times' = <<>>]_vars

\* A calculator of buffer size 2 after three updates of 1, 2 and 0 seconds: the
\* first sample is gone, the other two are kept in order.
C14_Witness ==
    /\ buffer_size = 2
    /\ fps_call = "update"
    /\ fps_samples = <<1, 2, 0>>
    /\ frame_times = <<2, 0>>
    /\ fps = [num |-> 2, den |-> 2]

\* the counts get_detection_summary and the loop's stats give a list of detections
SessionStats ==
    IF is_cloud THEN CountAll(ZeroCounts, all_detections) ELSE total_detection_stats

\* C15 as stated: when a source has delivered the three frames of the scenario,
\* the alerts sent frame by frame are [false, true, false], the session counts one
\* Drone and nothing else, and once the read after frame 3 has failed the session
\* is stopped.
C15_Original ==
    (scenario.on /\ Len(scenario.fired) = 3) =>
        /\ scenario.fired = <<FALSE, TRUE, FALSE>>
        /\ SessionStats = [ZeroCounts EXCEPT !["Drone"] = 1]
        /\ event \in {"read_fail", "video_end", "video_summary"}
             => (~detection_active /\ pc \in {"idle", "video_done"})

\* C15 amended: in the live loop the three frames of the scenario send alerts
\* [false, true, false], the loop's stats count one Drone and nothing else, and
\* the failed read after frame 3 leaves detection inactive.  An uploaded video
\* sends nothing frame by frame, [false, false, false]; after its last frame the
\* capture is released and the summary sends one alert for one Drone.
C15_EndToEnd ==
    (scenario.on /\ Len(scenario.fired) = 3) =>
        /\ ~is_cloud =>
             /\ scenario.fired = <<FALSE, TRUE, FALSE>>
             /\ total_detection_stats = [ZeroCounts EXCEPT !["Drone"] = 1]
             /\ last_drone_notification = clock
             /\ Len(alert_log) = 1
             /\ event = "read_fail" => (~detection_active /\ pc = "idle")
        /\ is_cloud =>
             /\ scenario.fired = <<FALSE, FALSE, FALSE>>
             /\ CountAll(ZeroCounts, all_detections) = [ZeroCounts EXCEPT !["Drone"] = 1]
             /\ event = "video_frame" => ~alert.called
             /\ event = "video_end" => (video_cap = None /\ opened = {} /\ pc = "video_done")
             /\ event = "video_summary" =>
                  (alert.called /\ alert.success /\ alert.drone_count = 1 /\ pc = "idle")

\* The live loop has run the whole scenario and the fourth read has failed.
C15_Witness ==
    /\ scenario.on
    /\ scenario.fired = <<FALSE, TRUE, FALSE>>
    /\ event = "read_fail"
    /\ ~detection_active
    /\ nread = 3

\* C16: the pair process_results hands back never joins a None frame with
\* detections: after a frame whose results are None, are an empty list, or whose
\* box extraction raised, the frame is None and the detection list is empty.
C16_NoFrameNoDetections ==
    /\ annotated_frame = NoFrame => detections = <<>>
    /\ (/\ event \in {"iteration", "video_frame"}
        /\ (results.is_none \/ Len(results.list) = 0 \/ results.list[1].broken))
         => (annotated_frame = NoFrame /\ detections = <<>>)

\* A frame of the live loop whose Result holds a Drone box and whose extraction
\* raised.
C16_Witness ==
    /\ event = "iteration"
    /\ ~results.is_none
    /\ Len(results.list) = 1
    /\ results.list[1].broken
    /\ Len(results.list[1].boxes) = 1
    /\ annotated_frame = NoFrame
    /\ detections = <<>>

\* C17: cancellation is cooperative.  The iteration that has read a frame is
\* carried to its end, so the annotated frame it produced is shown; once the flag
\* is cleared no frame is read; and the step that clears the flag while the loop
\* runs ends the loop.
C17_CooperativeCancel ==
    [][/\ nread' # nread => displayed' = (annotated_frame' # NoFrame)
       /\ ~detection_active => nread' = nread
       /\ (pc = "loop" /\ detection_active /\ ~detection_active') => pc' = "idle"]_vars

\* C18: at most one opened capture is unreleased at any time.
C18_OneHandleAtATime == Cardinality(opened) <= 1

====
